---- MODULE Spec2Model ----
(***************************************************************************)
(* BufferStream (include/BufferStream.h): a typed, bounds-checked cursor   *)
(* over a contiguous memory region or a growable backing container.        *)
(*                                                                         *)
(* A byte is the zero byte or a non-zero byte (the code copies bytes and    *)
(* compares them with '\0' only), a value of a type T is the sequence of   *)
(* the sizeof(T) bytes of its object representation (host byte order), and *)
(* std::uint64_t / std::int64_t arithmetic is arithmetic modulo 2^WordBits *)
(* (two's complement for the signed type).  An access that leaves the      *)
(* backing storage, and a signed overflow, are undefined behaviour: the    *)
(* operation ends with outcome "UB" in the state Undefined, where the      *)
(* fields of the cursor mean nothing and no action is enabled any more.    *)
(***************************************************************************)
EXTENDS Integers, Sequences, FiniteSets, TLC

VARIABLES
    buffer,                 \* the bytes of the backing storage `buffer` points to
    bufferLen,              \* std::uint64_t bufferLen
    bufferPos,              \* std::uint64_t bufferPos
    bufferResizeCallback,   \* 0 for nullptr, else the callback of the container
                            \* constructor: sizeof(value_type) of the container it captured
    useExceptions,          \* bool useExceptions
    bigEndian,              \* bool bigEndian
    nativeLittle,           \* std::endian::native == std::endian::little (fixed per build)
    last                    \* the last operation: its name, element type, outcome and returned value

vars == <<buffer, bufferLen, bufferPos, bufferResizeCallback,
          useExceptions, bigEndian, nativeLittle, last>>

(***************************************************************************)
(* Bounds of the model.                                                    *)
(***************************************************************************)
WordBits == 4       \* width of the modelled uint64_t / int64_t
MaxBuf   == 4       \* largest view length a growing write may request
MaxInit  == 3       \* largest element count handed to a constructor

Mod    == 2 ^ WordBits
IntMin == -(Mod \div 2)
IntMax == (Mod \div 2) - 1
Bytes  == {0, 1}    \* std::byte: the zero byte and a non-zero byte

\* conversion to std::uint64_t
U(x) == x % Mod
\* conversion to std::int64_t
S(x) == IF U(x) > IntMax THEN U(x) - Mod ELSE U(x)
\* TRUE iff the mathematical result of a signed operation is representable
Fits(x) == x >= IntMin /\ x <= IntMax

RECURSIVE SeqsOf(_)
SeqsOf(n) == IF n = 0 THEN {<<>>}
             ELSE {Append(s, b) : s \in SeqsOf(n - 1), b \in Bytes}

Zeros(n) == [i \in 1..n |-> 0]

(***************************************************************************)
(* The element types T the operations are instantiated with.               *)
(***************************************************************************)
Ty(k, s) == [kind |-> k, size |-> s]
Byte1    == Ty("arith", 1)
Types    == {Ty("arith", 1), Ty("arith", 2), Ty("arith", 4),
             Ty("enum", 2), Ty("aggregate", 2)}

\* a test of the type that lets every type through to swap_endian
Swappable_Any(T) == T.kind \in {"arith", "enum", "aggregate"}

\* std::is_integral_v<T> || std::floating_point<T> || std::is_enum_v<T>
Swappable(T) == T.kind \in {"arith", "enum"}


SeekDirs == {"beg", "cur", "end"}

\* the record kept in `last` for an operation; T is the element type the
\* operation was instantiated with, NoType when it has none
Op(name, T, outcome, ret) ==
    [op |-> name, T |-> T, outcome |-> outcome, ret |-> ret]

NoType == [kind |-> "none", size |-> 0]

(***************************************************************************)
(* Construction.  A constructor yields the fields of the new cursor; the   *)
(* storage it is built over is `store`, a sequence of bytes.               *)
(***************************************************************************)
\* ResizeCallback{nullptr}
Null == 0

\* BufferStream(T* buffer, std::uint64_t bufferLen_, ResizeCallback resizeCallback)
BufferStreamPtr(store, size, bufferLen_, callback) ==
    [buffer               |-> store,
     bufferLen            |-> U(size * bufferLen_),
     bufferPos            |-> 0,
     bufferResizeCallback |-> callback,
     useExceptions        |-> TRUE,
     bigEndian            |-> FALSE]

\* BufferStream(T(&buffer)[N]): delegates with sizeof(T) * N as the element count
BufferStreamArray(store, size, N) ==
    BufferStreamPtr(store, size, U(size * N), Null)

\* BufferStream(T(&buffer)[M][N]): buffer decays to T(*)[N], so the delegate's
\* element type is T[N], of size sizeof(T) * N
BufferStreamArray2(store, size, M, N) ==
    BufferStreamPtr(store, U(size * N), U(U(size * M) * N), Null)

\* BufferStream(T& buffer) for a container without resize()
BufferStreamFixedContainer(store, size, count) ==
    BufferStreamPtr(store, size, U(count * size), Null)

\* BufferStream(T& buffer, bool resizable) for a container with resize()
BufferStreamResizableContainer(store, size, count, resizable) ==
    BufferStreamPtr(store, size, U(count * size), IF resizable THEN size ELSE Null)

\* BufferStreamReadOnly(const T* buffer, std::uint64_t bufferLen)
BufferStreamReadOnlyPtr(store, size, bufferLen_) ==
    BufferStreamPtr(store, size, bufferLen_, Null)

\* BufferStreamReadOnly(T(&buffer)[N])
BufferStreamReadOnlyArray(store, size, N) ==
    BufferStreamReadOnlyPtr(store, size, U(size * N))

\* BufferStreamReadOnly(T& buffer), both container overloads
BufferStreamReadOnlyContainer(store, size, count) ==
    BufferStreamReadOnlyPtr(store, size, U(count * size))

\* the constructor overloads; BufferStreamReadOnly(T(&buffer)[M][N]) is left
\* out: its const_cast changes the pointee type, so no call of it compiles
CtorKinds == {"ptr", "array", "array2", "fixedContainer", "resizableContainer",
              "roPtr", "roArray", "roContainer"}
ElemSizes == {1, 2}

\* the constructor calls: kind, sizeof(T), the counts M and N (M is 1 unless
\* the array is two-dimensional) and the `resizable` argument; the regions
\* are small enough for no length computation to leave the modelled word
CtorCalls ==
    {c \in [kind : CtorKinds, size : ElemSizes, M : 1..2, N : 0..MaxInit,
            resizable : BOOLEAN] :
        /\ (c.kind # "array2") => (c.M = 1)
        /\ (c.kind \in {"array", "array2", "roArray"}) => (c.N > 0)
        /\ (c.kind # "resizableContainer") => (c.resizable = FALSE)
        /\ c.size * c.M * c.N * c.size * c.M * c.N < Mod}

\* the number of bytes of the region the constructor is handed
ViewedBytes(c) == c.size * c.M * c.N

Construct(c, store) ==
    CASE c.kind = "ptr"                -> BufferStreamPtr(store, c.size, c.N, Null)
      [] c.kind = "array"              -> BufferStreamArray(store, c.size, c.N)
      [] c.kind = "array2"             -> BufferStreamArray2(store, c.size, c.M, c.N)
      [] c.kind = "fixedContainer"     -> BufferStreamFixedContainer(store, c.size, c.N)
      [] c.kind = "resizableContainer" -> BufferStreamResizableContainer(store, c.size, c.N, c.resizable)
      [] c.kind = "roPtr"              -> BufferStreamReadOnlyPtr(store, c.size, c.N)
      [] c.kind = "roArray"            -> BufferStreamReadOnlyArray(store, c.size, c.N)
      [] c.kind = "roContainer"        -> BufferStreamReadOnlyContainer(store, c.size, c.N)

Constructed(c, store, little) ==
    LET s == Construct(c, store) IN
    /\ buffer = s.buffer
    /\ bufferLen = s.bufferLen
    /\ bufferPos = s.bufferPos
    /\ bufferResizeCallback = s.bufferResizeCallback
    /\ useExceptions = s.useExceptions
    /\ bigEndian = s.bigEndian
    /\ nativeLittle = little
    /\ last = [op |-> "ctor", T |-> NoType, outcome |-> "ok", ret |-> <<>>, call |-> c]

\* every constructor call, over a zero-filled region
InitCtor ==
    \E c \in CtorCalls : \E little \in BOOLEAN :
        Constructed(c, Zeros(ViewedBytes(c)), little)

\* the constructor calls whose view lies within the region they were handed
SoundCalls ==
    {c \in CtorCalls :
        /\ ViewedBytes(c) <= MaxInit
        /\ Construct(c, Zeros(ViewedBytes(c))).bufferLen <= ViewedBytes(c)}

\* a cursor over a region of any content, on either host
Init ==
    \E c \in SoundCalls : \E store \in SeqsOf(ViewedBytes(c)) : \E little \in BOOLEAN :
        Constructed(c, store, little)

\* a cursor over a zero-filled region, on a little-endian host
InitNav ==
    \E c \in SoundCalls : Constructed(c, Zeros(ViewedBytes(c)), TRUE)

Running == last.outcome # "UB"

(***************************************************************************)
(* Configuration.                                                          *)
(***************************************************************************)
\* set_exceptions_enabled(bool exceptions)
SetExceptionsEnabled(exceptions) ==
    /\ Running
    /\ useExceptions' = exceptions
    /\ last' = Op("set_exceptions_enabled", NoType, "ok", <<>>)
    /\ UNCHANGED <<buffer, bufferLen, bufferPos, bufferResizeCallback,
                   bigEndian, nativeLittle>>

\* set_big_endian that also puts the stored bytes into the other order
SetBigEndian_Reorders(readBigEndian) ==
    /\ Running
    /\ bigEndian' = readBigEndian
    /\ buffer' = IF readBigEndian = bigEndian THEN buffer
                 ELSE [i \in 1..Len(buffer) |-> buffer[Len(buffer) + 1 - i]]
    /\ last' = Op("set_big_endian", NoType, "ok", <<>>)
    /\ UNCHANGED <<bufferLen, bufferPos, bufferResizeCallback,
                   useExceptions, nativeLittle>>

\* set_big_endian(bool readBigEndian)
SetBigEndian(readBigEndian) ==
    /\ Running
    /\ bigEndian' = readBigEndian
    /\ last' = Op("set_big_endian", NoType, "ok", <<>>)
    /\ UNCHANGED <<buffer, bufferLen, bufferPos, bufferResizeCallback,
                   useExceptions, nativeLittle>>

(***************************************************************************)
(* The operations as functions of the cursor fields.  Each yields the      *)
(* fields it may change, the outcome ("ok", "OutOfBounds" for              *)
(* std::overflow_error, "UnsupportedEndianSwap" for std::invalid_argument, *)
(* "UB") and, for a read, the value returned.                              *)
(***************************************************************************)
\* the endianness branch of read/write: TRUE iff the cursor's byte order is
\* not the host's (lines 189-190 and 202-203)
SwapNeeded == IF nativeLittle THEN bigEndian ELSE ~bigEndian

\* swap_endian exchanging the first and the last byte only
swap_endian_EndsOnly(t) ==
    [k \in 1..Len(t) |-> IF k = 1 THEN t[Len(t)] ELSE IF k = Len(t) THEN t[1] ELSE t[k]]

\* swap_endian(T* t): dest.bytes[k] = source.bytes[sizeof(T) - k - 1]
swap_endian(t) == [k \in 1..Len(t) |-> t[Len(t) - k + 1]]

\* the bytes [pos, pos + n) of the storage (0-based offsets)
Slice(buf, pos, n) == [k \in 1..n |-> buf[pos + k]]

\* std::memcpy(buffer + pos, v, Len(v))
Store(buf, pos, v) ==
    [i \in 1..Len(buf) |-> IF i > pos /\ i <= pos + Len(v) THEN v[i - pos] ELSE buf[i]]

Moved(pos, outcome) == [bufferPos |-> pos, outcome |-> outcome]

\* seek whose std::ios::end case lacks the comparison of offset with bufferLen
seek_EndUnbounded(pos, len, offset, offsetFrom) ==
    CASE offsetFrom = "beg" ->
            IF useExceptions /\ (offset > len \/ offset < 0)
            THEN Moved(pos, "OutOfBounds")
            ELSE Moved(U(offset), "ok")
      [] offsetFrom = "cur" ->
            IF useExceptions /\ (U(pos + offset) > len \/ S(pos) + offset < 0)
            THEN Moved(pos, "OutOfBounds")
            ELSE Moved(U(pos + offset), "ok")
      [] offsetFrom = "end" ->
            IF useExceptions /\ offset < 0
            THEN Moved(pos, "OutOfBounds")
            ELSE Moved(U(len - offset), "ok")

\* seek whose std::ios::cur case refuses the end of the region
seek_CurExcludesEnd(pos, len, offset, offsetFrom) ==
    CASE offsetFrom = "beg" ->
            IF useExceptions /\ (offset > len \/ offset < 0)
            THEN Moved(pos, "OutOfBounds")
            ELSE Moved(U(offset), "ok")
      [] offsetFrom = "cur" ->
            IF useExceptions /\ (U(pos + offset) >= len \/ S(pos) + offset < 0)
            THEN Moved(pos, "OutOfBounds")
            ELSE Moved(U(pos + offset), "ok")
      [] offsetFrom = "end" ->
            IF useExceptions /\ (offset > len \/ offset < 0)
            THEN Moved(pos, "OutOfBounds")
            ELSE Moved(U(len - offset), "ok")

\* seek whose std::ios::cur case lacks the comparison with bufferLen
seek_CurUnbounded(pos, len, offset, offsetFrom) ==
    CASE offsetFrom = "beg" ->
            IF useExceptions /\ (offset > len \/ offset < 0)
            THEN Moved(pos, "OutOfBounds")
            ELSE Moved(U(offset), "ok")
      [] offsetFrom = "cur" ->
            IF useExceptions /\ ~Fits(S(pos) + offset)
            THEN Moved(pos, "UB")
            ELSE IF useExceptions /\ S(pos) + offset < 0
            THEN Moved(pos, "OutOfBounds")
            ELSE Moved(U(pos + offset), "ok")
      [] offsetFrom = "end" ->
            IF useExceptions /\ (offset > len \/ offset < 0)
            THEN Moved(pos, "OutOfBounds")
            ELSE Moved(U(len - offset), "ok")

\* seek(std::int64_t offset, std::ios::seekdir offsetFrom)
seek(pos, len, offset, offsetFrom) ==
    CASE offsetFrom = "beg" ->
            IF useExceptions /\ (offset > len \/ offset < 0)
            THEN Moved(pos, "OutOfBounds")
            ELSE Moved(U(offset), "ok")
      [] offsetFrom = "cur" ->
            IF useExceptions /\ U(pos + offset) > len
            THEN Moved(pos, "OutOfBounds")
            ELSE IF useExceptions /\ ~Fits(S(pos) + offset)
            THEN Moved(pos, "UB")
            ELSE IF useExceptions /\ S(pos) + offset < 0
            THEN Moved(pos, "OutOfBounds")
            ELSE Moved(U(pos + offset), "ok")
      [] offsetFrom = "end" ->
            IF useExceptions /\ (offset > len \/ offset < 0)
            THEN Moved(pos, "OutOfBounds")
            ELSE Moved(U(len - offset), "ok")

\* seek_u(std::uint64_t offset, std::ios::seekdir offsetFrom)
seek_u(pos, len, offset, offsetFrom) == seek(pos, len, S(offset), offsetFrom)

\* skip<T>(std::int64_t n) that moves by n bytes whatever the size of T
skip_SingleBytes(pos, len, T, n) ==
    IF n = 0 THEN Moved(pos, "ok")
    ELSE seek(pos, len, S(U(n)), "cur")

\* skip<T>(std::int64_t n)
skip(pos, len, T, n) ==
    IF n = 0 THEN Moved(pos, "ok")
    ELSE seek(pos, len, S(T.size * U(n)), "cur")

Got(pos, outcome, ret) == [bufferPos |-> pos, outcome |-> outcome, ret |-> ret]

\* read(T& obj) whose bounds test refuses the object that ends at bufferLen
read_EndRefused(buf, len, pos, T) ==
    IF useExceptions /\ U(pos + T.size) >= len
    THEN Got(pos, "OutOfBounds", <<>>)
    ELSE IF pos + T.size > Len(buf)
    THEN Got(pos, "UB", <<>>)
    ELSE LET obj == Slice(buf, pos, T.size) IN
         IF T.size > 1 /\ SwapNeeded
         THEN IF Swappable(T)
              THEN Got(U(pos + T.size), "ok", swap_endian(obj))
              ELSE IF useExceptions
              THEN Got(pos, "UnsupportedEndianSwap", <<>>)
              ELSE Got(U(pos + T.size), "ok", obj)
         ELSE Got(U(pos + T.size), "ok", obj)

\* read(T& obj)
read(buf, len, pos, T) ==
    IF useExceptions /\ U(pos + T.size) > len
    THEN Got(pos, "OutOfBounds", <<>>)
    ELSE IF pos + T.size > Len(buf)
    THEN Got(pos, "UB", <<>>)
    ELSE LET obj == Slice(buf, pos, T.size) IN
         IF T.size > 1 /\ SwapNeeded
         THEN IF Swappable(T)
              THEN Got(U(pos + T.size), "ok", swap_endian(obj))
              ELSE IF useExceptions
              THEN Got(pos, "UnsupportedEndianSwap", <<>>)
              ELSE Got(U(pos + T.size), "ok", obj)
         ELSE Got(U(pos + T.size), "ok", obj)

\* a growth callback that grows the container one element at a time
RECURSIVE GrowCount_ByOne(_, _)
GrowCount_ByOne(curSize, newLen) ==
    IF U(curSize * bufferResizeCallback) < newLen
    THEN GrowCount_ByOne(curSize + 1, newLen)
    ELSE curSize

\* the growth callback of BufferStream(T& buffer, bool resizable): the element
\* count the container is resized to (lines 92-99)
RECURSIVE GrowCount(_, _)
GrowCount(curSize, newLen) ==
    IF U(curSize * bufferResizeCallback) < newLen
    THEN GrowCount(IF curSize = 0 THEN 1 ELSE U(curSize * 2), newLen)
    ELSE curSize

\* the callback: buffer.resize(curSize) value-initialises the new elements
ResizeCallback(buf, newLen) ==
    LET count == GrowCount(Len(buf) \div bufferResizeCallback, newLen) IN
    buf \o Zeros(count * bufferResizeCallback - Len(buf))

Sized(resized, buf, len) == [resized |-> resized, buffer |-> buf, bufferLen |-> len]

\* resize_buffer that leaves bufferLen as it was
resize_buffer_KeepsLength(buf, len, newLen) ==
    IF bufferResizeCallback = Null
    THEN Sized(FALSE, buf, len)
    ELSE Sized(TRUE, ResizeCallback(buf, newLen), len)

\* resize_buffer(std::uint64_t newLen)
resize_buffer(buf, len, newLen) ==
    IF bufferResizeCallback = Null
    THEN Sized(FALSE, buf, len)
    ELSE Sized(TRUE, ResizeCallback(buf, newLen), newLen)

Put(buf, len, pos, outcome) ==
    [buffer |-> buf, bufferLen |-> len, bufferPos |-> pos, outcome |-> outcome]

\* the test every write starts with: bufferPos + n > bufferLen &&
\* !resize_buffer(bufferPos + n) && useExceptions; `failed` is its value, the
\* other fields the storage and length after it
Room(buf, len, pos, n) ==
    LET r == IF U(pos + n) > len THEN resize_buffer(buf, len, U(pos + n))
             ELSE Sized(TRUE, buf, len)
    IN  [failed |-> ~r.resized /\ useExceptions, buffer |-> r.buffer,
         bufferLen |-> r.bufferLen]

\* write(const T& obj) that leaves the copied bytes in host order
write_Unswapped(buf, len, pos, T, obj) ==
    LET r == Room(buf, len, pos, T.size) IN
    IF r.failed
    THEN Put(buf, len, pos, "OutOfBounds")
    ELSE IF pos + T.size > Len(r.buffer)
    THEN Put(r.buffer, r.bufferLen, pos, "UB")
    ELSE IF T.size > 1 /\ SwapNeeded /\ ~Swappable(T) /\ useExceptions
    THEN Put(Store(r.buffer, pos, obj), r.bufferLen, pos, "UnsupportedEndianSwap")
    ELSE Put(Store(r.buffer, pos, obj), r.bufferLen, U(pos + T.size), "ok")

\* write(const T& obj)
write(buf, len, pos, T, obj) ==
    LET r == Room(buf, len, pos, T.size) IN
    IF r.failed
    THEN Put(buf, len, pos, "OutOfBounds")
    ELSE IF pos + T.size > Len(r.buffer)
    THEN Put(r.buffer, r.bufferLen, pos, "UB")
    ELSE IF T.size > 1 /\ SwapNeeded
    THEN IF Swappable(T)
         THEN Put(Store(r.buffer, pos, swap_endian(obj)), r.bufferLen,
                  U(pos + T.size), "ok")
         ELSE IF useExceptions
         THEN Put(Store(r.buffer, pos, obj), r.bufferLen, pos,
                  "UnsupportedEndianSwap")
         ELSE Put(Store(r.buffer, pos, obj), r.bufferLen, U(pos + T.size), "ok")
    ELSE Put(Store(r.buffer, pos, obj), r.bufferLen, U(pos + T.size), "ok")

\* write(const T(&obj)[N]): the loop of write(obj[i]) from element i on
RECURSIVE WriteLoop(_, _, _, _, _, _)
WriteLoop(buf, len, pos, T, objs, i) ==
    IF i > Len(objs) THEN Put(buf, len, pos, "ok")
    ELSE LET w == write(buf, len, pos, T, objs[i]) IN
         IF w.outcome # "ok" THEN w
         ELSE WriteLoop(w.buffer, w.bufferLen, w.bufferPos, T, objs, i + 1)

\* the bytes of a sequence of single-byte values
Flat(objs) == [i \in 1..Len(objs) |-> objs[i][1]]

\* write(const T(&obj)[N]) that asks for the room of one element
write_array_RoomForOne(buf, len, pos, T, objs) ==
    LET N == Len(objs)
        r == Room(buf, len, pos, T.size)
    IN  IF r.failed
        THEN Put(buf, len, pos, "OutOfBounds")
        ELSE IF T.size = 1
        THEN IF pos + N > Len(r.buffer)
             THEN Put(r.buffer, r.bufferLen, pos, "UB")
             ELSE Put(Store(r.buffer, pos, Flat(objs)), r.bufferLen, U(pos + N), "ok")
        ELSE WriteLoop(r.buffer, r.bufferLen, pos, T, objs, 1)

\* write(const T(&obj)[N]); the std::array, container, span and pointer
\* overloads (lines 389-404, 446-465, 493-512, 567-586) make the same test and
\* the same copy of the same bytes
write_array(buf, len, pos, T, objs) ==
    LET N == Len(objs)
        r == Room(buf, len, pos, U(T.size * N))
    IN  IF r.failed
        THEN Put(buf, len, pos, "OutOfBounds")
        ELSE IF T.size = 1
        THEN IF pos + N > Len(r.buffer)
             THEN Put(r.buffer, r.bufferLen, pos, "UB")
             ELSE Put(Store(r.buffer, pos, Flat(objs)), r.bufferLen, U(pos + N), "ok")
        ELSE WriteLoop(r.buffer, r.bufferLen, pos, T, objs, 1)

\* char
Char == Ty("arith", 1)

\* write(std::string_view obj, ...): the loop from output index i on (0-based)
RECURSIVE StringLoop(_, _, _, _, _, _)
StringLoop(buf, len, pos, obj, maxSize, i) ==
    IF i >= maxSize THEN Put(buf, len, pos, "ok")
    ELSE LET w == write(buf, len, pos, Char,
                        IF i < Len(obj) THEN <<obj[i + 1]>> ELSE <<0>>)
         IN  IF w.outcome # "ok" THEN w
             ELSE StringLoop(w.buffer, w.bufferLen, w.bufferPos, obj, maxSize, i + 1)

\* a byte budget that counts a bundled terminator as a character
StringBudget_KeepsBundled(obj, addNullTerminator, maxSize) ==
    IF maxSize = 0
    THEN U(Len(obj) + (IF addNullTerminator THEN 1 ELSE 0))
    ELSE maxSize

\* the byte budget of write(std::string_view, bool, std::uint64_t)
StringBudget(obj, addNullTerminator, maxSize) ==
    LET bundledTerminator == obj # <<>> /\ obj[Len(obj)] = 0 IN
    IF maxSize = 0
    THEN U(Len(obj) + (IF addNullTerminator THEN 1 ELSE 0)
                    - (IF bundledTerminator THEN 1 ELSE 0))
    ELSE maxSize

\* a string write that stops at the end of the source instead of padding
write_string_Unpadded(buf, len, pos, obj, addNullTerminator, maxSize) ==
    LET budget == StringBudget(obj, addNullTerminator, maxSize)
        r      == Room(buf, len, pos, budget)
    IN  IF r.failed
        THEN Put(buf, len, pos, "OutOfBounds")
        ELSE StringLoop(r.buffer, r.bufferLen, pos, obj,
                        IF budget < Len(obj) THEN budget ELSE Len(obj), 0)

\* write(std::string_view obj, bool addNullTerminator, std::uint64_t maxSize)
write_string(buf, len, pos, obj, addNullTerminator, maxSize) ==
    LET budget == StringBudget(obj, addNullTerminator, maxSize)
        r      == Room(buf, len, pos, budget)
    IN  IF r.failed
        THEN Put(buf, len, pos, "OutOfBounds")
        ELSE StringLoop(r.buffer, r.bufferLen, pos, obj, budget, 0)

\* pad<T>(std::uint64_t n): the loop of write<std::byte>({}), `left` iterations
\* to go
RECURSIVE PadLoop(_, _, _, _)
PadLoop(buf, len, pos, left) ==
    IF left = 0 THEN Put(buf, len, pos, "ok")
    ELSE LET w == write(buf, len, pos, Byte1, <<0>>) IN
         IF w.outcome # "ok" THEN w
         ELSE PadLoop(w.buffer, w.bufferLen, w.bufferPos, left - 1)

\* pad<T>(std::uint64_t n) that writes n bytes whatever the size of T
pad_CountsBytes(buf, len, pos, T, n) == PadLoop(buf, len, pos, U(n))

pad(buf, len, pos, T, n) == PadLoop(buf, len, pos, U(n * T.size))

\* at<T> that returns the value without seeking back to where it was called
at_NoRestore(buf, len, pos, T, offset, offsetFrom) ==
    LET s == seek(pos, len, offset, offsetFrom) IN
    IF s.outcome # "ok" THEN Got(s.bufferPos, s.outcome, <<>>)
    ELSE read(buf, len, s.bufferPos, T)

\* at<T>(std::int64_t offset, std::ios::seekdir offsetFrom)
at(buf, len, pos, T, offset, offsetFrom) ==
    LET s == seek(pos, len, offset, offsetFrom) IN
    IF s.outcome # "ok" THEN Got(s.bufferPos, s.outcome, <<>>)
    ELSE LET val == read(buf, len, s.bufferPos, T) IN
         IF val.outcome # "ok" THEN val
         ELSE LET back == seek_u(val.bufferPos, len, pos, "beg") IN
              IF back.outcome # "ok" THEN Got(back.bufferPos, back.outcome, <<>>)
              ELSE Got(back.bufferPos, "ok", val.ret)

\* peek<T>()
peek(buf, len, pos, T) == at(buf, len, pos, T, 0, "cur")

\* skip_u<T>(std::uint64_t n): calls skip with its default element type
skip_u(pos, len, T, n) == skip(pos, len, Byte1, S(n))

\* read(std::string& obj): the loop of read<char>(), obj read so far
RECURSIVE TerminatedLoop(_, _, _, _)
TerminatedLoop(buf, len, pos, obj) ==
    LET temp == read(buf, len, pos, Char) IN
    IF temp.outcome # "ok" THEN Got(temp.bufferPos, temp.outcome, <<>>)
    ELSE IF temp.ret = <<0>> THEN Got(temp.bufferPos, "ok", obj)
    ELSE TerminatedLoop(buf, len, temp.bufferPos, obj \o temp.ret)

\* read(std::string& obj) that leaves the terminator unread
RECURSIVE UnreadLoop(_, _, _, _)
UnreadLoop(buf, len, pos, obj) ==
    LET temp == read(buf, len, pos, Char) IN
    IF temp.outcome # "ok" THEN Got(temp.bufferPos, temp.outcome, <<>>)
    ELSE IF temp.ret = <<0>> THEN Got(pos, "ok", obj)
    ELSE UnreadLoop(buf, len, temp.bufferPos, obj \o temp.ret)

read_string_TerminatorUnread(buf, len, pos) == UnreadLoop(buf, len, pos, <<>>)

\* read(std::string& obj) that reads its characters without the bounds test
read_string_Unbounded(buf, len, pos) ==
    IF \E k \in pos..(Len(buf) - 1) : buf[k + 1] = 0
    THEN LET k == CHOOSE j \in pos..(Len(buf) - 1) :
                      buf[j + 1] = 0 /\ \A i \in pos..(j - 1) : buf[i + 1] # 0
         IN Got(k + 1, "ok", [i \in 1..(k - pos) |-> buf[pos + i]])
    ELSE Got(pos, "UB", <<>>)

\* read(std::string& obj): how many times the loop has called read<char>()
\* when it ends
RECURSIVE StringReads(_, _, _)
StringReads(buf, len, pos) ==
    LET temp == read(buf, len, pos, Char) IN
    IF temp.outcome # "ok" \/ temp.ret = <<0>> THEN 1
    ELSE 1 + StringReads(buf, len, temp.bufferPos)

\* read_string(), read(std::string& obj)
read_string(buf, len, pos) == TerminatedLoop(buf, len, pos, <<>>)

\* read(std::string& obj, n, stopOnNullTerminator): the loop from index i on
RECURSIVE CountedLoop(_, _, _, _, _, _, _)
CountedLoop(buf, len, pos, obj, n, stopOnNullTerminator, i) ==
    IF i >= n THEN Got(pos, "ok", obj)
    ELSE LET temp == read(buf, len, pos, Char) IN
         IF temp.outcome # "ok" THEN Got(temp.bufferPos, temp.outcome, <<>>)
         ELSE IF temp.ret = <<0>> /\ stopOnNullTerminator
         THEN LET s == skip_u(temp.bufferPos, len, Char, U(n - i - 1)) IN
              Got(s.bufferPos, s.outcome, IF s.outcome = "ok" THEN obj ELSE <<>>)
         ELSE CountedLoop(buf, len, temp.bufferPos, obj \o temp.ret, n,
                          stopOnNullTerminator, i + 1)

\* read(std::string& obj, n, stopOnNullTerminator) that returns at the
\* terminator without skipping the rest of the n bytes
RECURSIVE StoppingLoop(_, _, _, _, _, _, _)
StoppingLoop(buf, len, pos, obj, n, stopOnNullTerminator, i) ==
    IF i >= n THEN Got(pos, "ok", obj)
    ELSE LET temp == read(buf, len, pos, Char) IN
         IF temp.outcome # "ok" THEN Got(temp.bufferPos, temp.outcome, <<>>)
         ELSE IF temp.ret = <<0>> /\ stopOnNullTerminator
         THEN Got(temp.bufferPos, "ok", obj)
         ELSE StoppingLoop(buf, len, temp.bufferPos, obj \o temp.ret, n,
                           stopOnNullTerminator, i + 1)

read_string_n_NoSkip(buf, len, pos, n, stopOnNullTerminator) ==
    IF useExceptions /\ U(pos + n) > len
    THEN Got(pos, "OutOfBounds", <<>>)
    ELSE StoppingLoop(buf, len, pos, <<>>, n, stopOnNullTerminator, 0)

\* read_string(n, stopOnNullTerminator), read(std::string& obj, n, stop)
read_string_n(buf, len, pos, n, stopOnNullTerminator) ==
    IF useExceptions /\ U(pos + n) > len
    THEN Got(pos, "OutOfBounds", <<>>)
    ELSE CountedLoop(buf, len, pos, <<>>, n, stopOnNullTerminator, 0)

\* buffer[index]: the byte at a 0-based index of the storage
Indexed(buf, pos, index) ==
    IF 0 <= index /\ index < Len(buf)
    THEN Got(pos, "ok", <<buf[index + 1]>>)
    ELSE Got(pos, "UB", <<>>)

\* at(std::int64_t offset, std::ios::seekdir offsetFrom) const
at_byte(buf, len, pos, offset, offsetFrom) ==
    CASE offsetFrom = "beg" ->
            IF useExceptions /\ (offset > len \/ offset < 0)
            THEN Got(pos, "OutOfBounds", <<>>)
            ELSE Indexed(buf, pos, offset)
      [] offsetFrom = "cur" ->
            IF useExceptions /\ U(pos + offset) > len
            THEN Got(pos, "OutOfBounds", <<>>)
            ELSE IF useExceptions /\ ~Fits(S(pos) + offset)
            THEN Got(pos, "UB", <<>>)
            ELSE IF useExceptions /\ S(pos) + offset < 0
            THEN Got(pos, "OutOfBounds", <<>>)
            ELSE Indexed(buf, pos, U(pos + offset))
      [] offsetFrom = "end" ->
            IF useExceptions /\ (offset > len \/ offset <= 0)
            THEN Got(pos, "OutOfBounds", <<>>)
            ELSE Indexed(buf, pos, U(len - offset))

\* peek() const
peek_byte(buf, len, pos) == at_byte(buf, len, pos, 0, "cur")

\* the n objects of type T stored from pos on, as they lie in the storage
Elements(buf, pos, T, n) ==
    [i \in 1..n |-> Slice(buf, pos + (i - 1) * T.size, T.size)]

\* std::memcpy(obj, this->buffer + this->bufferPos, n); this->bufferPos += n
\* for n objects of one byte
BulkCopy(buf, pos, n) ==
    IF pos + n > Len(buf) THEN Got(pos, "UB", <<>>)
    ELSE Got(U(pos + n), "ok", Elements(buf, pos, Byte1, n))

\* for (i < n) obj[i] = this->read<T>(): `left` iterations to go, obj so far
RECURSIVE ReadLoop(_, _, _, _, _, _)
ReadLoop(buf, len, pos, T, left, obj) ==
    IF left = 0 THEN Got(pos, "ok", obj)
    ELSE LET e == read(buf, len, pos, T) IN
         IF e.outcome # "ok" THEN Got(e.bufferPos, e.outcome, <<>>)
         ELSE ReadLoop(buf, len, e.bufferPos, T, left - 1, Append(obj, e.ret))

\* at_u<T>(std::uint64_t offset, std::ios::seekdir offsetFrom): its call of
\* at names no element type and so binds to the byte accessor; the result
\* converts to T for a one-byte T only
at_u(buf, len, pos, T, offset, offsetFrom) ==
    at_byte(buf, len, pos, S(offset), offsetFrom)

\* std::span<T>{reinterpret_cast<T*>(buffer + bufferPos), n};
\* bufferPos += sizeof(T) * n: the span is bound to the storage in place, and a
\* span that runs past the storage is no valid range
InPlace(buf, pos, T, n) ==
    IF pos + T.size * n > Len(buf) THEN Got(pos, "UB", <<>>)
    ELSE Got(U(pos + U(T.size * n)), "ok", Elements(buf, pos, T, n))

\* read_span<T>(std::uint64_t n)
read_span(buf, len, pos, T, n) ==
    IF useExceptions /\ U(pos + U(T.size * n)) > len
    THEN Got(pos, "OutOfBounds", <<>>)
    ELSE IF n = 0 THEN Got(pos, "ok", <<>>)
    ELSE InPlace(buf, pos, T, n)

\* read(T* obj, std::uint64_t n)
read_pointer(buf, len, pos, T, n) ==
    IF useExceptions /\ U(pos + U(T.size * n)) > len
    THEN Got(pos, "OutOfBounds", <<>>)
    ELSE IF n = 0 THEN Got(pos, "ok", <<>>)
    ELSE IF T.size = 1
    THEN BulkCopy(buf, pos, n)
    ELSE ReadLoop(buf, len, pos, T, n, <<>>)

\* read(std::span<T>& obj, std::uint64_t n) for a span obj that is empty or
\* has n elements
read_into_span(buf, len, pos, T, n, empty) ==
    IF useExceptions /\ U(pos + U(T.size * n)) > len
    THEN Got(pos, "OutOfBounds", <<>>)
    ELSE IF n = 0 THEN Got(pos, "ok", <<>>)
    ELSE IF empty
    THEN InPlace(buf, pos, T, n)
    ELSE IF T.size = 1
    THEN BulkCopy(buf, pos, n)
    ELSE ReadLoop(buf, len, pos, T, n, <<>>)

\* read(T(&obj)[N]) without the test of the whole array against bufferLen
read_array_Unchecked(buf, len, pos, T, N) ==
    ReadLoop(buf, len, pos, T, N, <<>>)

\* read(T(&obj)[N])
read_array(buf, len, pos, T, N) ==
    IF useExceptions /\ U(pos + U(T.size * N)) > len
    THEN Got(pos, "OutOfBounds", <<>>)
    ELSE IF T.size = 1
    THEN BulkCopy(buf, pos, N)
    ELSE ReadLoop(buf, len, pos, T, N, <<>>)

\* read(T& obj, n) into a container that keeps what it held before
read_container_Appending(buf, len, pos, T, n, contiguous, held) ==
    IF useExceptions /\ U(pos + U(T.size * n)) > len
    THEN Got(pos, "OutOfBounds", <<>>)
    ELSE IF n = 0 THEN Got(pos, "ok", held)
    ELSE IF T.size = 1 /\ contiguous
    THEN LET r == BulkCopy(buf, pos, n) IN
         Got(r.bufferPos, r.outcome, IF r.outcome = "ok" THEN held \o r.ret ELSE <<>>)
    ELSE ReadLoop(buf, len, pos, T, n, held)

\* read(T& obj, std::uint64_t n) for a resizable container obj of elements of
\* type T, contiguous (std::vector) or not (std::deque), that held `held`
read_container(buf, len, pos, T, n, contiguous, held) ==
    IF useExceptions /\ U(pos + U(T.size * n)) > len
    THEN Got(pos, "OutOfBounds", <<>>)
    ELSE IF n = 0 THEN Got(pos, "ok", <<>>)
    ELSE IF T.size = 1 /\ contiguous
    THEN BulkCopy(buf, pos, n)
    ELSE ReadLoop(buf, len, pos, T, n, <<>>)

\* read_bytes(std::uint64_t length)
read_bytes(buf, len, pos, length) ==
    read_container(buf, len, pos, Byte1, length, TRUE, <<>>)

\* TRUE iff a write of n bytes stays within the growth the model follows: the
\* growth callback is asked for at most MaxBuf bytes
GrowthBounded(len, pos, n) ==
    \A i \in 1..n :
        (bufferResizeCallback # Null /\ U(pos + i) > len) => U(pos + i) <= MaxBuf

(***************************************************************************)
(* The actions.                                                            *)
(***************************************************************************)
\* the state after undefined behaviour: the fields mean nothing
Undefined(name, T) ==
    /\ buffer' = <<>>
    /\ bufferLen' = 0
    /\ bufferPos' = 0
    /\ bufferResizeCallback' = Null
    /\ useExceptions' = TRUE
    /\ bigEndian' = FALSE
    /\ last' = Op(name, T, "UB", <<>>)
    /\ UNCHANGED nativeLittle

\* an operation that moves the position at most
Reposition(name, T, r, ret) ==
    IF r.outcome = "UB" THEN Undefined(name, T)
    ELSE /\ bufferPos' = r.bufferPos
         /\ last' = Op(name, T, r.outcome, ret)
         /\ UNCHANGED <<buffer, bufferLen, bufferResizeCallback,
                        useExceptions, bigEndian, nativeLittle>>

\* an operation that may write and grow
Modify(name, T, r) ==
    IF r.outcome = "UB" THEN Undefined(name, T)
    ELSE /\ buffer' = r.buffer
         /\ bufferLen' = r.bufferLen
         /\ bufferPos' = r.bufferPos
         /\ last' = Op(name, T, r.outcome, <<>>)
         /\ UNCHANGED <<bufferResizeCallback, useExceptions, bigEndian,
                        nativeLittle>>

Offsets    == {IntMin} \cup ((-2)..(MaxBuf + 1))
Counts     == (-2)..2
SizeTypes  == {Ty("arith", 1), Ty("arith", 2), Ty("arith", 4)}
AtTypes    == {Ty("arith", 1), Ty("arith", 2)}

\* the values written: every value of a type of at most two bytes, and of a
\* wider type those that differ from their reversal in each pair of bytes
WriteValues(T) ==
    IF T.size <= 2 THEN SeqsOf(T.size)
    ELSE {v \in SeqsOf(T.size) : v[1] = 0 /\ v[T.size] = 1}

\* seek(offset, offsetFrom)
Seek(offset, offsetFrom) ==
    /\ Running
    /\ \E r \in {seek(bufferPos, bufferLen, offset, offsetFrom)} :
           Reposition("seek", NoType, r, <<>>)

\* skip<T>(n)
Skip(T, n) ==
    /\ Running
    /\ \E r \in {skip(bufferPos, bufferLen, T, n)} :
           Reposition("skip", T, r, <<>>)

\* read<T>()
Read(T) ==
    /\ Running
    /\ \E r \in {read(buffer, bufferLen, bufferPos, T)} :
           Reposition("read", T, r, r.ret)

\* at<T>(offset, offsetFrom)
At(T, offset, offsetFrom) ==
    /\ Running
    /\ \E r \in {at(buffer, bufferLen, bufferPos, T, offset, offsetFrom)} :
           Reposition("at", T, r, r.ret)

\* peek<T>()
Peek(T) ==
    /\ Running
    /\ \E r \in {peek(buffer, bufferLen, bufferPos, T)} :
           Reposition("peek", T, r, r.ret)

\* write(obj) for an obj of type T
Write(T, obj) ==
    /\ Running
    /\ GrowthBounded(bufferLen, bufferPos, T.size)
    /\ \E r \in {write(buffer, bufferLen, bufferPos, T, obj)} :
           Modify("write", T, r)

\* read_string()
ReadString ==
    /\ Running
    /\ \E r \in {read_string(buffer, bufferLen, bufferPos)} :
           Reposition("read_string", Char, r, r.ret)

\* read_string(n, stopOnNullTerminator)
ReadStringN(n, stopOnNullTerminator) ==
    /\ Running
    /\ \E r \in {read_string_n(buffer, bufferLen, bufferPos, n, stopOnNullTerminator)} :
           Reposition("read_string_n", Char, r, r.ret)

\* at(offset, offsetFrom), the byte accessor
AtByte(offset, offsetFrom) ==
    /\ Running
    /\ \E r \in {at_byte(buffer, bufferLen, bufferPos, offset, offsetFrom)} :
           Reposition("at_byte", NoType, r, r.ret)

\* peek(), the byte accessor
PeekByte ==
    /\ Running
    /\ \E r \in {peek_byte(buffer, bufferLen, bufferPos)} :
           Reposition("peek_byte", NoType, r, r.ret)

\* a const member function that returns the value ret
Query(name, ret) ==
    /\ Running
    /\ last' = Op(name, NoType, "ok", ret)
    /\ UNCHANGED <<buffer, bufferLen, bufferPos, bufferResizeCallback,
                   useExceptions, bigEndian, nativeLittle>>

\* tell()
Tell == Query("tell", <<bufferPos>>)

\* size()
Size == Query("size", <<bufferLen>>)

\* data(): the storage the cursor points at
Data == Query("data", buffer)

\* are_exceptions_enabled()
AreExceptionsEnabled == Query("are_exceptions_enabled", <<useExceptions>>)

\* is_big_endian()
IsBigEndian == Query("is_big_endian", <<bigEndian>>)

\* the previous content of a destination container of elements of type T
Held(T) == {<<>>, <<[k \in 1..T.size |-> 1]>>}

\* read(obj, n) for a resizable container obj that holds `held`
ReadContainer(T, n, contiguous, held) ==
    /\ Running
    /\ \E r \in {read_container(buffer, bufferLen, bufferPos, T, n, contiguous, held)} :
           Reposition("read_container", T, r, r.ret)

\* read_bytes(length)
ReadBytes(length) ==
    /\ Running
    /\ \E r \in {read_bytes(buffer, bufferLen, bufferPos, length)} :
           Reposition("read_bytes", Byte1, r, r.ret)

\* read(obj) for an array obj of N elements of type T
ReadArray(T, N) ==
    /\ Running
    /\ \E r \in {read_array(buffer, bufferLen, bufferPos, T, N)} :
           Reposition("read_array", T, r, r.ret)

\* seek_u(offset, offsetFrom)
SeekU(offset, offsetFrom) ==
    /\ Running
    /\ \E r \in {seek_u(bufferPos, bufferLen, offset, offsetFrom)} :
           Reposition("seek_u", NoType, r, <<>>)

\* skip_u<T>(n)
SkipU(T, n) ==
    /\ Running
    /\ \E r \in {skip_u(bufferPos, bufferLen, T, n)} :
           Reposition("skip_u", T, r, <<>>)

\* at_u<T>(offset, offsetFrom)
AtU(T, offset, offsetFrom) ==
    /\ Running
    /\ \E r \in {at_u(buffer, bufferLen, bufferPos, T, offset, offsetFrom)} :
           Reposition("at_u", T, r, r.ret)

\* read_span<T>(n)
ReadSpan(T, n) ==
    /\ Running
    /\ \E r \in {read_span(buffer, bufferLen, bufferPos, T, n)} :
           Reposition("read_span", T, r, r.ret)

\* read(obj, n) for a pointer obj to n elements of type T
ReadPointer(T, n) ==
    /\ Running
    /\ \E r \in {read_pointer(buffer, bufferLen, bufferPos, T, n)} :
           Reposition("read_pointer", T, r, r.ret)

\* read(obj, n) for a span obj, empty or of n elements of type T
ReadIntoSpan(T, n, empty) ==
    /\ Running
    /\ \E r \in {read_into_span(buffer, bufferLen, bufferPos, T, n, empty)} :
           Reposition(IF empty THEN "read_span_empty" ELSE "read_span_sized", T, r, r.ret)

\* the arrays written: up to two elements of a one- or two-byte type
ArrayTypes == {Ty("arith", 1), Ty("arith", 2), Ty("aggregate", 2)}
ArrayElems(T) == IF T.size = 1 THEN {<<1>>} ELSE {<<0, 1>>}
Arrays(T) == UNION {[1..N -> ArrayElems(T)] : N \in 0..2}

\* the strings written: empty, unterminated and with a bundled terminator;
\* the byte budgets: none (0), shorter and longer than the strings
Strings == {<<>>, <<1>>, <<1, 0>>}
Budgets == {0, 1, 3}

\* write(obj) for an array obj of elements of type T
WriteArray(T, objs) ==
    /\ Running
    /\ GrowthBounded(bufferLen, bufferPos, U(T.size * Len(objs)))
    /\ \E r \in {write_array(buffer, bufferLen, bufferPos, T, objs)} :
           Modify("write_array", T, r)

\* write(obj, addNullTerminator, maxSize) for a string obj
WriteString(obj, addNullTerminator, maxSize) ==
    /\ Running
    /\ GrowthBounded(bufferLen, bufferPos, StringBudget(obj, addNullTerminator, maxSize))
    /\ \E r \in {write_string(buffer, bufferLen, bufferPos, obj,
                                addNullTerminator, maxSize)} :
           Modify("write_string", Char, r)

\* pad<T>(n)
Pad(T, n) ==
    /\ Running
    /\ GrowthBounded(bufferLen, bufferPos, U(n * T.size))
    /\ \E r \in {pad(buffer, bufferLen, bufferPos, T, n)} :
           Modify("pad", T, r)

\* reading and writing: the position is set from the start of the view only
Next ==
    \/ \E b \in BOOLEAN : SetExceptionsEnabled(b)
    \/ \E b \in BOOLEAN : SetBigEndian(b)
    \/ \E offset \in 0..(MaxBuf + 1) : Seek(offset, "beg")
    \/ \E T \in Types : Read(T)
    \/ \E T \in Types : \E obj \in WriteValues(T) : Write(T, obj)

Spec == Init /\ [][Next]_vars

\* the writing operations, on a little-endian host over storage filled with
\* zero bytes: scalars, arrays and strings, from every position a seek can set
NextWrite ==
    \/ \E exceptions \in BOOLEAN : SetExceptionsEnabled(exceptions)
    \/ \E readBigEndian \in BOOLEAN : SetBigEndian(readBigEndian)
    \/ \E offset \in 0..(MaxBuf + 1) : Seek(offset, "beg")
    \/ \E T \in ArrayTypes : \E obj \in ArrayElems(T) : Write(T, obj)
    \/ \E T \in ArrayTypes : \E objs \in Arrays(T) : WriteArray(T, objs)
    \/ \E obj \in Strings, addNullTerminator \in BOOLEAN, maxSize \in Budgets :
            WriteString(obj, addNullTerminator, maxSize)

SpecWrite == InitNav /\ [][NextWrite]_vars

\* every operation that moves the position, over zero-filled storage
NextNav ==
    \/ \E b \in BOOLEAN : SetExceptionsEnabled(b)
    \/ \E b \in BOOLEAN : SetBigEndian(b)
    \/ \E offset \in Offsets, offsetFrom \in SeekDirs : Seek(offset, offsetFrom)
    \/ \E T \in SizeTypes, n \in Counts : Skip(T, n)
    \/ \E T \in Types : Read(T)
    \/ \E T \in AtTypes, offset \in Offsets, offsetFrom \in SeekDirs :
            At(T, offset, offsetFrom)
    \/ \E T \in Types : Peek(T)
    \/ \E T \in Types : Write(T, Zeros(T.size))
    \/ \E T \in SizeTypes, n \in 0..2 : Pad(T, n)

SpecNav == InitNav /\ [][NextNav]_vars

NextCtor ==
    \/ \E b \in BOOLEAN : SetExceptionsEnabled(b)
    \/ \E b \in BOOLEAN : SetBigEndian(b)

SpecCtor == InitCtor /\ [][NextCtor]_vars

\* a cursor over a region of bytes of any content, handed over as pointer and
\* length, on a little-endian host
InitRead ==
    \E c \in {d \in SoundCalls : d.kind = "ptr" /\ d.size = 1} :
        \E store \in SeqsOf(ViewedBytes(c)) : Constructed(c, store, TRUE)

\* the byte counts asked of read_string(n, stop)
Lengths == 0..MaxBuf

\* every operation that does not write, over storage of any content; the
\* position is set from the start of the view and skipped to offsets up to
\* MaxBuf + 1
NextRead ==
    \/ \E exceptions \in BOOLEAN : SetExceptionsEnabled(exceptions)
    \/ \E readBigEndian \in BOOLEAN : SetBigEndian(readBigEndian)
    \/ \E offset \in 0..(MaxBuf + 1) : Seek(offset, "beg")
    \/ \E T \in SizeTypes, n \in Counts :
            U(bufferPos + T.size * n) <= MaxBuf + 1 /\ Skip(T, n)
    \/ \E T \in Types : Read(T)
    \/ ReadString
    \/ \E n \in Lengths, stopOnNullTerminator \in BOOLEAN :
            ReadStringN(n, stopOnNullTerminator)
    \/ \E T \in AtTypes, offset \in Offsets, offsetFrom \in SeekDirs :
            At(T, offset, offsetFrom)
    \/ \E T \in Types : Peek(T)
    \/ \E offset \in Offsets, offsetFrom \in SeekDirs : AtByte(offset, offsetFrom)
    \/ PeekByte
    \/ Tell
    \/ Size
    \/ Data
    \/ AreExceptionsEnabled
    \/ IsBigEndian

SpecRead == InitRead /\ [][NextRead]_vars

\* the strings written without byte budget: those of Strings and one ending
\* in two terminators; with byte budget: shorter than the longer budget, with
\* and without bundled terminator, and longer than the shorter budget
Sources  == Strings \cup {<<0, 0>>}
Budgeted == {<<1>>, <<1, 0>>, <<1, 1>>}

\* string writes from every position, over zero-filled storage
NextString ==
    \/ \E exceptions \in BOOLEAN : SetExceptionsEnabled(exceptions)
    \/ \E offset \in 0..(MaxBuf + 1) : Seek(offset, "beg")
    \/ \E obj \in Sources, addNullTerminator \in BOOLEAN :
            WriteString(obj, addNullTerminator, 0)
    \/ \E obj \in Budgeted, addNullTerminator \in BOOLEAN, maxSize \in Budgets \ {0} :
            WriteString(obj, addNullTerminator, maxSize)

SpecString == InitNav /\ [][NextString]_vars

\* the element counts asked of the reads of several elements
SeqCounts == 0..2

\* the reads of several elements, over storage of any content
NextSeq ==
    \/ \E exceptions \in BOOLEAN : SetExceptionsEnabled(exceptions)
    \/ \E readBigEndian \in BOOLEAN : SetBigEndian(readBigEndian)
    \/ \E offset \in 0..(MaxBuf + 1) : Seek(offset, "beg")
    \/ \E T \in ArrayTypes, n \in SeqCounts, contiguous \in BOOLEAN :
            \E held \in Held(T) : ReadContainer(T, n, contiguous, held)
    \/ \E length \in SeqCounts : ReadBytes(length)
    \/ \E T \in ArrayTypes, N \in 1..2 : ReadArray(T, N)

SpecSeq == InitRead /\ [][NextSeq]_vars

\* a cursor of any kind over a region of any content, on a little-endian host
InitPad ==
    \E c \in SoundCalls : \E store \in SeqsOf(ViewedBytes(c)) :
        Constructed(c, store, TRUE)

\* the element counts asked of pad
PadCounts == 0..2

\* padding from every position, over storage of any content
NextPad ==
    \/ \E exceptions \in BOOLEAN : SetExceptionsEnabled(exceptions)
    \/ \E offset \in 0..(MaxBuf + 1) : Seek(offset, "beg")
    \/ \E T \in SizeTypes, n \in PadCounts : Pad(T, n)

SpecPad == InitPad /\ [][NextPad]_vars

\* a cursor of any kind over a region filled with zero bytes or with non-zero
\* bytes, on a little-endian host
InitEnabled ==
    \E c \in SoundCalls :
        \E store \in {Zeros(ViewedBytes(c)), [k \in 1..ViewedBytes(c) |-> 1]} :
            Constructed(c, store, TRUE)

\* every operation on a cursor whose exceptions flag is never cleared; the
\* writes put zero bytes
NextEnabled ==
    \/ SetExceptionsEnabled(TRUE)
    \/ \E readBigEndian \in BOOLEAN : SetBigEndian(readBigEndian)
    \/ \E offset \in Offsets, offsetFrom \in SeekDirs : Seek(offset, offsetFrom)
    \/ \E T \in SizeTypes, n \in Counts : Skip(T, n)
    \/ \E T \in Types : Read(T)
    \/ ReadString
    \/ \E n \in Lengths, stopOnNullTerminator \in BOOLEAN :
            ReadStringN(n, stopOnNullTerminator)
    \/ \E T \in ArrayTypes, n \in SeqCounts, contiguous \in BOOLEAN :
            ReadContainer(T, n, contiguous, <<>>)
    \/ \E length \in SeqCounts : ReadBytes(length)
    \/ \E T \in ArrayTypes, N \in 1..2 : ReadArray(T, N)
    \/ \E T \in AtTypes, offset \in Offsets, offsetFrom \in SeekDirs :
            At(T, offset, offsetFrom)
    \/ \E T \in Types : Peek(T)
    \/ \E offset \in Offsets, offsetFrom \in SeekDirs : AtByte(offset, offsetFrom)
    \/ PeekByte
    \/ \E T \in Types : Write(T, Zeros(T.size))
    \/ \E T \in ArrayTypes, N \in SeqCounts : WriteArray(T, [i \in 1..N |-> Zeros(T.size)])
    \/ \E addNullTerminator \in BOOLEAN, maxSize \in Budgets :
            WriteString(<<>>, addNullTerminator, maxSize)
    \/ \E T \in SizeTypes, n \in PadCounts : Pad(T, n)

SpecEnabled == InitEnabled /\ [][NextEnabled]_vars

\* the arguments of the unsigned variants
UOffsets == 0..(MaxBuf + 1)
UCounts  == 0..2

\* the unsigned variants, over storage of any content
NextUnsigned ==
    \/ \E exceptions \in BOOLEAN : SetExceptionsEnabled(exceptions)
    \/ \E offset \in UOffsets, offsetFrom \in SeekDirs : SeekU(offset, offsetFrom)
    \/ \E T \in SizeTypes, n \in UCounts : SkipU(T, n)
    \/ \E offset \in UOffsets, offsetFrom \in SeekDirs : AtU(Byte1, offset, offsetFrom)

SpecUnsigned == InitRead /\ [][NextUnsigned]_vars

\* the element counts asked of the counted reads: small ones, and counts whose
\* byte count or whose end offset exceeds 2^WordBits - 1
BigCounts == {0, 1, 2, Mod \div 2, Mod - 1}

\* the counted reads from every position, over storage of any content;
\* containers and strings, which refuse a count above their max_size()
\* themselves, are asked for small counts only
NextCount ==
    \/ \E exceptions \in BOOLEAN : SetExceptionsEnabled(exceptions)
    \/ \E offset \in 0..(MaxBuf + 1) : Seek(offset, "beg")
    \/ \E T \in ArrayTypes, n \in BigCounts : ReadSpan(T, n)
    \/ \E T \in ArrayTypes, n \in BigCounts : ReadPointer(T, n)
    \/ \E T \in ArrayTypes, n \in SeqCounts, contiguous \in BOOLEAN :
            ReadContainer(T, n, contiguous, <<>>)
    \/ \E n \in SeqCounts, stopOnNullTerminator \in BOOLEAN :
            ReadStringN(n, stopOnNullTerminator)

SpecCount == InitRead /\ [][NextCount]_vars

\* a BufferStreamReadOnly over a region of any content, on a little-endian
\* host
InitReadOnly ==
    \E c \in {d \in SoundCalls : d.kind \in {"roPtr", "roArray", "roContainer"}} :
        \E store \in SeqsOf(ViewedBytes(c)) : Constructed(c, store, TRUE)

\* the members BufferStreamReadOnly leaves public: all but write and
\* operator<<
NextReadOnly ==
    \/ \E exceptions \in BOOLEAN : SetExceptionsEnabled(exceptions)
    \/ \E readBigEndian \in BOOLEAN : SetBigEndian(readBigEndian)
    \/ \E offset \in 0..(MaxBuf + 1) : Seek(offset, "beg")
    \/ \E T \in SizeTypes : U(bufferPos + T.size) <= MaxBuf + 1 /\ Skip(T, 1)
    \/ \E T \in Types : Read(T)
    \/ \E T \in AtTypes, offset \in 0..MaxBuf : At(T, offset, "beg")
    \/ \E T \in Types : Peek(T)
    \/ \E T \in SizeTypes, n \in PadCounts : Pad(T, n)

SpecReadOnly == InitReadOnly /\ [][NextReadOnly]_vars

\* a cursor constructed over a resizable container of zero elements or more,
\* of one-byte or wider elements, on a little-endian host
InitGrow ==
    \E c \in {d \in CtorCalls : d.kind = "resizableContainer"} :
        Constructed(c, Zeros(ViewedBytes(c)), TRUE)

\* writes at every position of a cursor over a resizable container
NextGrow ==
    \/ \E exceptions \in BOOLEAN : SetExceptionsEnabled(exceptions)
    \/ \E offset \in 0..(MaxBuf + 1) : Seek(offset, "beg")
    \/ \E T \in ArrayTypes : \E obj \in ArrayElems(T) : Write(T, obj)
    \/ \E T \in SizeTypes, n \in PadCounts : Pad(T, n)

SpecGrow == InitGrow /\ [][NextGrow]_vars

\* reads into spans, empty and sized, and scalar reads, from every position
\* and under both settings of the endianness flag, over storage of any content
NextSpan ==
    \/ \E exceptions \in BOOLEAN : SetExceptionsEnabled(exceptions)
    \/ \E readBigEndian \in BOOLEAN : SetBigEndian(readBigEndian)
    \/ \E offset \in 0..(MaxBuf + 1) : Seek(offset, "beg")
    \/ \E T \in ArrayTypes : Read(T)
    \/ \E T \in ArrayTypes, n \in SeqCounts, empty \in BOOLEAN :
            ReadIntoSpan(T, n, empty)

SpecSpan == InitRead /\ [][NextSpan]_vars

\* ---------------------------------------------------------------------------
\* Properties

\* the position is a position of the viewed region
InView == bufferPos <= bufferLen

\* C2: after every constructor size() is the byte size of the viewed region
\* (sizeof(T) * count for a pointer, sizeof(T) * N for an array T[N],
\* sizeof(T) * M * N for T[M][N], size() * sizeof(value_type) for a container)
\* and tell() is 0.  The array and container constructors multiply by
\* sizeof(T) twice, so this fails for every element wider than one byte.
C2_SizeIsViewedBytes ==
    (last.op = "ctor") => (bufferLen = ViewedBytes(last.call) /\ bufferPos = 0)

\* C1, as stated: whenever exceptions are enabled, 0 <= tell() <= size().
\* Fails after set_exceptions_enabled(false), a seek out of the region and
\* set_exceptions_enabled(true).
C1_EnabledImpliesInView ==
    useExceptions => InView

\* C1, amended: 0 <= tell() <= size() holds after construction, and every
\* operation called with exceptions enabled on a cursor whose position is in
\* that range is defined and leaves the position in that range.
C1_InViewPreserved ==
    /\ (last.op = "ctor") => InView
    /\ [][(useExceptions /\ InView) => (last'.outcome # "UB" /\ bufferPos' <= bufferLen')]_vars

\* C1: an operation has moved the position to the end of a non-empty region
\* with exceptions enabled
C1_Witness ==
    /\ useExceptions /\ last.op = "skip" /\ last.outcome = "ok"
    /\ bufferPos = bufferLen /\ bufferLen > 0

\* the target of seek(offset, offsetFrom) as the integer the documentation names
SeekTarget(offset, offsetFrom) ==
    CASE offsetFrom = "beg" -> offset
      [] offsetFrom = "cur" -> bufferPos + offset
      [] offsetFrom = "end" -> bufferLen - offset

\* C4: with exceptions enabled, seek(offset, dir) from a position of the
\* region computes the target offset (start), tell() + offset (current) or
\* size() - offset (end); it sets tell() to the target iff the target lies in
\* [0, size()], and otherwise fails with OutOfBounds and leaves tell() alone.
C4_SeekSetsTargetIffInRange ==
    [][(useExceptions /\ InView /\ last'.op = "seek") =>
        \A offset \in Offsets, offsetFrom \in SeekDirs :
            Seek(offset, offsetFrom) =>
            LET target == SeekTarget(offset, offsetFrom) IN
            IF 0 <= target /\ target <= bufferLen
            THEN last'.outcome = "ok" /\ bufferPos' = target
            ELSE last'.outcome = "OutOfBounds" /\ bufferPos' = bufferPos]_vars

\* C4: a seek has been refused from the inside of the region
C4_Witness ==
    /\ useExceptions /\ last.op = "seek" /\ last.outcome = "OutOfBounds"
    /\ 0 < bufferPos /\ bufferPos < bufferLen

\* the n bytes stored from offset p on
BytesAt(buf, p, n) == [k \in 1..n |-> buf[p + k]]

\* a byte sequence back to front
Reversed(v) == [k \in 1..Len(v) |-> v[Len(v) + 1 - k]]

\* the endianness flag names the byte order that is not the host's
FlagDiffers == bigEndian = nativeLittle

\* integral, floating-point or enumeration type
IsNumeric(T) == T.kind \in {"arith", "enum"}

\* the stream bytes of the value v of type T under the endianness flag
InStreamOrder(T, v) == IF T.size > 1 /\ FlagDiffers THEN Reversed(v) ELSE v

\* C3: with exceptions enabled, read<T>() at a position p of the region, for a
\* T whose byte order the cursor can correct (the refused case is C10),
\* succeeds exactly when p + sizeof(T) <= size(): it then returns the
\* sizeof(T) bytes stored at [p, p + sizeof(T)), byte-order corrected, and
\* sets tell() to p + sizeof(T); otherwise, also at p = size(), it fails with
\* OutOfBounds.
C3_ReadSucceedsIffInBounds ==
    [][(useExceptions /\ InView /\ last'.op = "read"
            /\ (last'.T.size = 1 \/ ~FlagDiffers \/ IsNumeric(last'.T))) =>
        LET T == last'.T IN
        IF bufferPos + T.size <= bufferLen
        THEN /\ last'.outcome = "ok"
             /\ last'.ret = InStreamOrder(T, BytesAt(buffer, bufferPos, T.size))
             /\ bufferPos' = bufferPos + T.size
        ELSE last'.outcome = "OutOfBounds"]_vars

\* C3: a four-byte read with exceptions enabled has ended at the end of the
\* region
C3_Witness ==
    /\ useExceptions /\ last.op = "read" /\ last.outcome = "ok"
    /\ last.T.size = 4 /\ bufferPos = bufferLen

\* C8: write(v) at p, then seek(p) and read<T>() under the same endianness
\* flag, returns v and ends at p + sizeof(T), for every value of every type
\* the write accepts and every position with room for it.
C8_WriteThenReadReturnsValue ==
    [][(last'.op = "write" /\ last'.outcome = "ok") =>
        \A obj \in WriteValues(last'.T) :
            Write(last'.T, obj) =>
            LET T    == last'.T
                back == seek(bufferPos', bufferLen', bufferPos, "beg")
                val  == read(buffer', bufferLen', back.bufferPos, T)
            IN  /\ back.outcome = "ok" /\ back.bufferPos = bufferPos
                /\ val.outcome = "ok" /\ val.ret = obj
                /\ val.bufferPos = bufferPos + T.size]_vars

\* C8: a two-byte value with two different bytes has been written under a
\* flag that differs from the host's byte order
C8_Witness ==
    /\ last.op = "write" /\ last.outcome = "ok" /\ last.T = Ty("arith", 2)
    /\ FlagDiffers /\ bufferPos >= 2
    /\ buffer[bufferPos - 1] # buffer[bufferPos]

\* C9: when the flag differs from the host's byte order every multi-byte
\* integral, floating-point or enumeration value is read and written with its
\* bytes reversed and single-byte values are unchanged; when the flag is the
\* host's byte order every value is read and written verbatim.
C9_BytesReversedIffFlagDiffers ==
    [][/\ (last'.op = "read" /\ last'.outcome = "ok"
            /\ (IsNumeric(last'.T) \/ ~FlagDiffers)) =>
            LET stored == BytesAt(buffer, bufferPos, last'.T.size) IN
            last'.ret = IF FlagDiffers /\ last'.T.size > 1
                        THEN Reversed(stored) ELSE stored
       /\ (last'.op = "write" /\ last'.outcome = "ok"
            /\ (IsNumeric(last'.T) \/ ~FlagDiffers)) =>
            \A obj \in WriteValues(last'.T) :
                Write(last'.T, obj) =>
                BytesAt(buffer', bufferPos, last'.T.size) =
                    IF FlagDiffers /\ last'.T.size > 1
                    THEN Reversed(obj) ELSE obj]_vars

\* C9: a four-byte value whose first and last bytes differ has been read under
\* a flag that differs from the host's byte order
C9_Witness ==
    /\ last.op = "read" /\ last.outcome = "ok" /\ last.T = Ty("arith", 4)
    /\ FlagDiffers /\ last.ret[1] # last.ret[4]

\* C10: a read or write of a multi-byte aggregate under a flag that differs
\* from the host's byte order, on an access that passes the bounds test, fails
\* with UnsupportedEndianSwap when exceptions are enabled; with exceptions
\* disabled it completes with the raw bytes, unswapped, and advances tell()
\* by sizeof(T).
C10_AggregateSwapRefused ==
    [][(last'.T.kind = "aggregate" /\ last'.T.size > 1 /\ FlagDiffers
            /\ last'.outcome # "UB") =>
        LET T == last'.T IN
        /\ (last'.op = "read" /\ useExceptions /\ InView
                /\ bufferPos + T.size <= bufferLen) =>
                last'.outcome = "UnsupportedEndianSwap"
        /\ (last'.op = "read" /\ ~useExceptions) =>
                /\ last'.outcome = "ok"
                /\ last'.ret = BytesAt(buffer, bufferPos, T.size)
                /\ bufferPos' = bufferPos + T.size
        /\ (last'.op = "write" /\ useExceptions /\ InView
                /\ (bufferPos + T.size <= bufferLen \/ bufferResizeCallback # Null)) =>
                last'.outcome = "UnsupportedEndianSwap"
        /\ (last'.op = "write" /\ ~useExceptions) =>
                \A obj \in WriteValues(T) :
                    Write(T, obj) =>
                    /\ last'.outcome = "ok"
                    /\ BytesAt(buffer', bufferPos, T.size) = obj
                    /\ bufferPos' = bufferPos + T.size]_vars

\* C10: the read of a two-byte aggregate has been refused
C10_Witness ==
    /\ useExceptions /\ last.op = "read" /\ last.T = Ty("aggregate", 2)
    /\ last.outcome = "UnsupportedEndianSwap"

\* the bytes a string write puts out: the explicit budget, else the length of
\* the string with exactly one terminator added or the bundled one removed
StringBytes(obj, addNullTerminator, maxSize) ==
    LET terminated == Len(obj) > 0 /\ obj[Len(obj)] = 0 IN
    IF maxSize > 0 THEN maxSize
    ELSE IF addNullTerminator /\ ~terminated THEN Len(obj) + 1
    ELSE IF ~addNullTerminator /\ terminated THEN Len(obj) - 1
    ELSE Len(obj)

\* the write operations
WriteOps == {"write", "write_array", "write_string"}

\* C5: on a cursor without growth callback and with exceptions enabled, a
\* write (scalar, array or container, string) from a position of the region
\* whose end tell() + byteCount exceeds size() fails with OutOfBounds.
C5_WritePastEndFails ==
    [][(useExceptions /\ InView /\ bufferResizeCallback = Null) =>
        /\ (last'.op = "write") =>
               \A obj \in ArrayElems(last'.T) :
                   (bufferPos + last'.T.size > bufferLen /\ Write(last'.T, obj)) =>
                   last'.outcome = "OutOfBounds"
        /\ (last'.op = "write_array") =>
               \A objs \in Arrays(last'.T) :
                   (/\ bufferPos + last'.T.size * Len(objs) > bufferLen
                    /\ WriteArray(last'.T, objs)) =>
                   last'.outcome = "OutOfBounds"
        /\ (last'.op = "write_string") =>
               \A obj \in Strings, addNullTerminator \in BOOLEAN, maxSize \in Budgets :
                   (/\ bufferPos + StringBytes(obj, addNullTerminator, maxSize) > bufferLen
                    /\ WriteString(obj, addNullTerminator, maxSize)) =>
                   last'.outcome = "OutOfBounds"]_vars

\* C5: a string write has been refused on a non-empty region without growth
\* callback
C5_Witness ==
    /\ useExceptions /\ bufferResizeCallback = Null /\ InView /\ bufferLen > 0
    /\ last.op = "write_string" /\ last.outcome = "OutOfBounds"

\* the stream bytes of a sequence of values of type T
RECURSIVE StreamBytes(_, _)
StreamBytes(T, objs) ==
    IF objs = <<>> THEN <<>>
    ELSE (IF IsNumeric(T) THEN InStreamOrder(T, Head(objs)) ELSE Head(objs))
         \o StreamBytes(T, Tail(objs))

\* the n stream bytes of a string: its characters, then zero bytes
StringStreamBytes(obj, n) == [i \in 1..n |-> IF i <= Len(obj) THEN obj[i] ELSE 0]

\* a write of the bytes `bytes` that ran past size() on a growing cursor: no
\* OutOfBounds failure; size() is the length the callback was asked for,
\* tell() + byteCount, and the storage covers it; a completed write left
\* `bytes` at [tell(), tell() + byteCount); every byte of the old region
\* outside that range is unchanged
Grown(bytes) ==
    LET end == bufferPos + Len(bytes) IN
    /\ last'.outcome # "OutOfBounds"
    /\ bufferLen' = end /\ Len(buffer') >= end
    /\ (last'.outcome = "ok") => (BytesAt(buffer', bufferPos, Len(bytes)) = bytes)
    /\ \A i \in 1..bufferLen : (i <= bufferPos \/ i > end) => (buffer'[i] = buffer[i])

\* C6: on a cursor with a growth callback a write whose end tell() + byteCount
\* exceeds size() never fails with OutOfBounds, exceptions enabled or not: the
\* callback is asked for tell() + byteCount, afterwards size() is at least
\* that, the written bytes are readable at their offsets and the other bytes
\* of the old region are unchanged.
C6_WritePastEndGrows ==
    [][(bufferResizeCallback # Null /\ last'.outcome # "UB") =>
        /\ (last'.op = "write") =>
               \A obj \in ArrayElems(last'.T) :
                   (bufferPos + last'.T.size > bufferLen /\ Write(last'.T, obj)) =>
                   Grown(StreamBytes(last'.T, <<obj>>))
        /\ (last'.op = "write_array") =>
               \A objs \in Arrays(last'.T) :
                   (/\ bufferPos + last'.T.size * Len(objs) > bufferLen
                    /\ WriteArray(last'.T, objs)) =>
                   Grown(StreamBytes(last'.T, objs))
        /\ (last'.op = "write_string") =>
               \A obj \in Strings, addNullTerminator \in BOOLEAN, maxSize \in Budgets :
                   (/\ bufferPos + StringBytes(obj, addNullTerminator, maxSize) > bufferLen
                    /\ WriteString(obj, addNullTerminator, maxSize)) =>
                   Grown(StringStreamBytes(obj, StringBytes(obj, addNullTerminator, maxSize)))]_vars

\* C6: a two-element array has been written past the end of a non-empty
\* growing region
C6_Witness ==
    /\ bufferResizeCallback # Null /\ last.op = "write_array" /\ last.outcome = "ok"
    /\ last.T = Ty("arith", 2) /\ bufferPos = bufferLen /\ bufferLen = MaxBuf
    /\ buffer[1] # 0

\* the first count in c, 2c, 4c, ... (1, 2, 4, ... for an empty container)
\* whose byte size reaches L
FirstCount(c, size, L) ==
    LET counts == {(IF c = 0 THEN 1 ELSE c) * 2 ^ k : k \in 0..WordBits}
        enough == {n \in counts : n * size >= L}
    IN  IF c * size >= L THEN c
        ELSE CHOOSE n \in enough : \A m \in enough : n <= m

\* the container behind the cursor, of elements of `size` bytes, after the
\* callback was asked for L bytes
Resized(size, L) ==
    Len(buffer') = size * FirstCount(Len(buffer) \div size, size, L)

\* C7: asked for L bytes, the growth callback of a resizable container of c
\* elements resizes it to the first count in c, 2c, 4c, ... (1, 2, 4, ... if
\* it is empty) whose byte size is at least L, and leaves it alone if its byte
\* size already is.
C7_ContainerDoubles ==
    [][(bufferResizeCallback # Null /\ last'.outcome # "UB") =>
        /\ (last'.op = "write") =>
               \A obj \in ArrayElems(last'.T) :
                   (bufferPos + last'.T.size > bufferLen /\ Write(last'.T, obj)) =>
                   Resized(bufferResizeCallback, bufferPos + last'.T.size)
        /\ (last'.op = "write_array") =>
               \A objs \in Arrays(last'.T) :
                   (/\ bufferPos + last'.T.size * Len(objs) > bufferLen
                    /\ WriteArray(last'.T, objs)) =>
                   Resized(bufferResizeCallback, bufferPos + last'.T.size * Len(objs))
        /\ (last'.op = "write_string") =>
               \A obj \in Strings, addNullTerminator \in BOOLEAN, maxSize \in Budgets :
                   (/\ bufferPos + StringBytes(obj, addNullTerminator, maxSize) > bufferLen
                    /\ WriteString(obj, addNullTerminator, maxSize)) =>
                   Resized(bufferResizeCallback,
                           bufferPos + StringBytes(obj, addNullTerminator, maxSize))]_vars

\* C7: a container of three elements has been resized to six
C7_Witness ==
    /\ bufferResizeCallback = 1 /\ last.op \in WriteOps /\ last.outcome = "ok"
    /\ Len(buffer) = 6

\* C11: a write<T> that fails with UnsupportedEndianSwap (exceptions enabled,
\* aggregate T, flag differing from the host) leaves every byte of the
\* destination buffer as it was before the call.  write copies the object
\* into the buffer (line 235) before it looks at the type, so this fails.
C11_RefusedWriteLeavesBuffer ==
    [][(last'.op = "write" /\ last'.outcome = "UnsupportedEndianSwap") =>
        (buffer' = buffer)]_vars

\* C12: skip<T>(n) with n # 0, negative n included, has the effect of
\* seek(sizeof(T) * n, std::ios::cur): the same position and the same outcome,
\* everything else unchanged; skip<T>(0) leaves the position where it is and
\* signals nothing, also from a position outside [0, size()].
C12_SkipIsRelativeSeek ==
    [][(last'.op = "skip") =>
        \A T \in {last'.T}, n \in Counts :
            (Fits(T.size * n) /\ Skip(T, n)) =>
            IF n = 0
            THEN /\ last'.outcome = "ok"
                 /\ bufferPos' = bufferPos
                 /\ UNCHANGED <<buffer, bufferLen, useExceptions, bigEndian>>
            ELSE \E r \in {seek(bufferPos, bufferLen, T.size * n, "cur")} :
                    IF r.outcome = "UB" THEN last'.outcome = "UB"
                    ELSE /\ last'.outcome = r.outcome
                         /\ bufferPos' = r.bufferPos
                         /\ UNCHANGED <<buffer, bufferLen, useExceptions, bigEndian>>]_vars

\* a skip of a two-byte type has left the position at 2, inside the view
C12_Witness ==
    /\ last.op = "skip" /\ last.T = Ty("arith", 2) /\ last.outcome = "ok"
    /\ useExceptions /\ bufferPos = 2 /\ bufferLen > 2

\* the index of the first terminator byte at or after p, below len
FirstTerminator(buf, p, len) ==
    CHOOSE k \in p..(len - 1) :
        buf[k + 1] = 0 /\ \A j \in p..(k - 1) : buf[j + 1] # 0

\* C13: read_string() with no length, started at a position p such that the
\* first terminator byte at or after p is at an index k < size(), returns
\* exactly the bytes at [p, k) and leaves tell() == k + 1.
C13_ReadStringEndsAfterTerminator ==
    [][(/\ last'.op = "read_string"
        /\ \E k \in bufferPos..(bufferLen - 1) : buffer[k + 1] = 0) =>
        LET k == FirstTerminator(buffer, bufferPos, bufferLen) IN
        /\ last'.outcome = "ok"
        /\ last'.ret = BytesAt(buffer, bufferPos, k - bufferPos)
        /\ bufferPos' = k + 1
        /\ UNCHANGED <<buffer, bufferLen>>]_vars

\* read_string() has returned one byte and stopped behind the terminator,
\* one byte before the end of the view
C13_Witness ==
    /\ last.op = "read_string" /\ last.outcome = "ok" /\ last.ret = <<1>>
    /\ bufferPos = 2 /\ bufferLen = 3

\* the bytes read_string(n, stop) is to return from position p: with stop,
\* those before the first terminator inside [p, p + n), all n if there is none
Counted(buf, p, n, stop) ==
    IF stop /\ \E k \in p..(p + n - 1) : buf[k + 1] = 0
    THEN BytesAt(buf, p, FirstTerminator(buf, p, p + n) - p)
    ELSE BytesAt(buf, p, n)

\* C14: read_string(n, stopOnTerminator) started at p with p + n <= size()
\* advances the position by exactly n; with stopOnTerminator true the result
\* is the bytes from p up to, not including, the first terminator inside
\* [p, p + n), or all n bytes if there is none; with stopOnTerminator false
\* the result has exactly n bytes, embedded terminators included.
C14_CountedReadAdvancesByN ==
    [][(last'.op = "read_string_n") =>
        \A n \in Lengths, stop \in BOOLEAN :
            (bufferPos + n <= bufferLen /\ ReadStringN(n, stop)) =>
            /\ last'.outcome = "ok"
            /\ bufferPos' = bufferPos + n
            /\ last'.ret = Counted(buffer, bufferPos, n, stop)
            /\ (~stop => Len(last'.ret) = n)
            /\ UNCHANGED <<buffer, bufferLen>>]_vars

\* read_string(3, true) from 0 over a terminator at index 1: one byte
\* returned, the position three bytes on
C14_Witness ==
    /\ last.op = "read_string_n" /\ last.outcome = "ok" /\ last.ret = <<1>>
    /\ bufferPos = 3 /\ buffer = <<1, 0, 0>>

\* the bytes a write has put between the old and the new position
Written == BytesAt(buffer', bufferPos, bufferPos' - bufferPos)

\* TRUE iff v holds one terminator byte, as its last byte (flag set), or no
\* terminator byte at all (flag clear)
TerminatedAsAsked(v, addNullTerminator) ==
    IF addNullTerminator
    THEN /\ Len(v) >= 1
         /\ v[Len(v)] = 0
         /\ \A i \in 1..(Len(v) - 1) : v[i] # 0
    ELSE \A i \in 1..Len(v) : v[i] # 0

EndsInOneTerminatorAtMost(obj) == \A i \in 1..(Len(obj) - 1) : obj[i] # 0

Padded(obj, b) == [i \in 1..b |-> IF i <= Len(obj) THEN obj[i] ELSE 0]

\* C16: a string write with an explicit byte budget b that has room (or
\* storage that grows) writes exactly b bytes and advances the position by
\* b: output byte i is source byte i below the source length and the
\* terminator byte from there on, whatever addNullTerminator is.
C16_BudgetWritesExactlyB ==
    [][(last'.op = "write_string") =>
        \A obj \in Budgeted, addNullTerminator \in BOOLEAN, b \in Budgets \ {0} :
            (/\ bufferPos + b <= bufferLen \/ bufferResizeCallback # Null
             /\ WriteString(obj, addNullTerminator, b)) =>
            /\ last'.outcome = "ok"
            /\ bufferPos' = bufferPos + b
            /\ Written = Padded(obj, b)]_vars

\* a write with budget 3 has padded a one-character string with terminators
C16_Witness ==
    /\ last.op = "write_string" /\ last.outcome = "ok"
    /\ bufferPos = 3 /\ bufferLen >= 3 /\ BytesAt(buffer, 0, 3) = <<1, 0, 0>>

C18_AtAndPeekKeepPosition ==
    [][(/\ last'.op \in {"at", "peek"}
        /\ last'.outcome # "UB"
        /\ useExceptions /\ InView) =>
        (bufferPos' = bufferPos)]_vars

\* the index the byte accessor at(offset, offsetFrom) addresses
AddressedIndex(offset, offsetFrom) ==
    CASE offsetFrom = "beg" -> offset
      [] offsetFrom = "cur" -> bufferPos + offset
      [] offsetFrom = "end" -> bufferLen - offset

\* the byte accessor has returned the byte at index without moving, if index
\* is one of 0 .. size() - 1, and has failed with OutOfBounds otherwise
ByteOrOutOfBounds(index) ==
    IF 0 <= index /\ index < bufferLen
    THEN /\ last'.outcome = "ok"
         /\ last'.ret = <<buffer[index + 1]>>
         /\ bufferPos' = bufferPos
    ELSE last'.outcome = "OutOfBounds"

\* C19: with exceptions enabled the byte-returning peek() and
\* at(offset, anchor) return the byte at the addressed index without moving
\* the position when the index is in [0, size() - 1] and fail with
\* OutOfBounds for every index outside it: peek() at the end of the view and
\* at(size(), std::ios::beg) fail.  The tests of the beg and cur cases let
\* index == size() through (lines 729 and 734) and buffer[size()] is read.
C19_ByteAccessChecked ==
    [][(last'.op \in {"at_byte", "peek_byte"} /\ useExceptions /\ InView) =>
        /\ \A offset \in Offsets, offsetFrom \in SeekDirs :
                AtByte(offset, offsetFrom) =>
                ByteOrOutOfBounds(AddressedIndex(offset, offsetFrom))
        /\ PeekByte => ByteOrOutOfBounds(bufferPos)]_vars

\* the operations that do not write
NonWriting ==
    {"tell", "size", "data", "are_exceptions_enabled", "is_big_endian",
     "set_exceptions_enabled", "set_big_endian", "seek", "skip", "read",
     "read_string", "read_string_n", "at", "peek", "at_byte", "peek_byte"}

\* C20: tell(), size(), data(), are_exceptions_enabled(), is_big_endian(),
\* set_exceptions_enabled, set_big_endian, seek, skip, the reads, at and peek
\* leave size() and every byte of the buffer unchanged; tell() and size()
\* return the position and the length and leave the position and both flags
\* unchanged as well.
C20_NonWritingKeepsView ==
    [][(last'.op \in NonWriting /\ last'.outcome # "UB") =>
        /\ bufferLen' = bufferLen
        /\ buffer' = buffer
        /\ (last'.op = "tell") =>
               /\ last'.ret = <<bufferPos>>
               /\ UNCHANGED <<bufferPos, useExceptions, bigEndian>>
        /\ (last'.op = "size") =>
               /\ last'.ret = <<bufferLen>>
               /\ UNCHANGED <<bufferPos, useExceptions, bigEndian>>]_vars

\* set_big_endian(true) has been called on a view whose two bytes differ
C20_Witness ==
    /\ last.op = "set_big_endian" /\ bigEndian
    /\ bufferLen = 2 /\ buffer = <<0, 1>>

\* the value read<T>() gives for the object stored at offset p
StoredValue(buf, p, T) ==
    LET stored == BytesAt(buf, p, T.size) IN
    IF T.size > 1 /\ FlagDiffers /\ IsNumeric(T) THEN Reversed(stored) ELSE stored

\* the values of the n objects of type T stored from offset p on
StoredValues(buf, p, T, n) ==
    [i \in 1..n |-> StoredValue(buf, p + (i - 1) * T.size, T)]

\* TRUE iff the cursor reads objects of type T without refusing the swap
Readable(T) == T.size = 1 \/ ~FlagDiffers \/ IsNumeric(T) \/ ~useExceptions

\* C21: read(container, n) and read_bytes(n), started at a position p with
\* p + n * sizeof(element) <= size(), discard what the destination held and
\* give a container of exactly n elements, the n values stored from p on,
\* leaving tell() == p + n * sizeof(element); with n = 0 the destination is
\* empty and the position is where it was.
C21_ContainerReadGivesNElements ==
    [][/\ (last'.op = "read_container" /\ Readable(last'.T)) =>
            \A T \in {last'.T}, n \in SeqCounts, contiguous \in BOOLEAN :
                \A held \in Held(T) :
                    (/\ bufferPos + n * T.size <= bufferLen
                     /\ ReadContainer(T, n, contiguous, held)) =>
                    /\ last'.outcome = "ok"
                    /\ Len(last'.ret) = n
                    /\ last'.ret = StoredValues(buffer, bufferPos, T, n)
                    /\ bufferPos' = bufferPos + n * T.size
       /\ (last'.op = "read_bytes") =>
            \A length \in SeqCounts :
                (bufferPos + length <= bufferLen /\ ReadBytes(length)) =>
                /\ last'.outcome = "ok"
                /\ Len(last'.ret) = length
                /\ last'.ret = StoredValues(buffer, bufferPos, Byte1, length)
                /\ bufferPos' = bufferPos + length]_vars

\* two one-byte elements have been read into a container, up to the end of a
\* view of three bytes
C21_Witness ==
    /\ last.op = "read_container" /\ last.outcome = "ok"
    /\ last.T = Ty("arith", 1) /\ last.ret = <<<<0>>, <<1>>>>
    /\ bufferPos = 3 /\ bufferLen = 3

\* the bytes [p, p + b) of the buffer are zero after the step and every other
\* byte of the old view is as it was
ZeroedFrom(p, b) ==
    /\ Len(buffer') >= p + b
    /\ \A i \in 1..b : buffer'[p + i] = 0
    /\ \A i \in 1..bufferLen : (i <= p \/ i > p + b) => buffer'[i] = buffer[i]

\* C22: pad<T>(n) has the effect of n * sizeof(T) successive single-byte
\* writes of zero.  With room for them the bytes [p, p + n * sizeof(T)) are
\* zero afterwards and the position has advanced by n * sizeof(T); a growable
\* cursor grows to the end of the padding and does not fail; a fixed cursor
\* with exceptions enabled and fewer than n * sizeof(T) bytes left fails with
\* OutOfBounds, after the writes that fitted.
C22_PadWritesZeroBytes ==
    [][(last'.op = "pad") =>
        \A T \in {last'.T}, n \in PadCounts :
            Pad(T, n) =>
            LET b == n * T.size IN
            IF b = 0
            THEN /\ last'.outcome = "ok"
                 /\ UNCHANGED <<buffer, bufferLen, bufferPos>>
            ELSE IF bufferPos + b <= bufferLen
            THEN /\ last'.outcome = "ok"
                 /\ ZeroedFrom(bufferPos, b)
                 /\ bufferPos' = bufferPos + b
                 /\ bufferLen' = bufferLen
            ELSE IF bufferResizeCallback # Null
            THEN /\ last'.outcome = "ok"
                 /\ ZeroedFrom(bufferPos, b)
                 /\ bufferPos' = bufferPos + b
                 /\ bufferLen' = bufferPos + b
            ELSE (useExceptions /\ InView) =>
                 /\ last'.outcome = "OutOfBounds"
                 /\ ZeroedFrom(bufferPos, bufferLen - bufferPos)
                 /\ bufferPos' = bufferLen
                 /\ bufferLen' = bufferLen]_vars

\* pad<T>(1) of a two-byte T has grown a container of three bytes to four and
\* left the first byte non-zero
C22_Witness ==
    /\ last.op = "pad" /\ last.outcome = "ok" /\ last.T.size = 2
    /\ bufferResizeCallback # Null /\ bufferLen = 4 /\ bufferPos = 4
    /\ buffer[1] = 1 /\ buffer[3] = 0 /\ buffer[4] = 0

\* C23: on a cursor whose exceptions flag is never set to false,
\* tell() <= size() holds after every operation, whether it returned or
\* signalled an error, on fixed and on growable cursors.
C23_InViewWhileNeverDisabled == Running => (useExceptions /\ bufferPos <= bufferLen)

\* a write on a growable cursor has failed with UnsupportedEndianSwap after
\* growing the view; the position is inside it
C23_Witness ==
    /\ last.outcome = "UnsupportedEndianSwap" /\ last.op = "write"
    /\ bufferResizeCallback # Null /\ bufferLen = MaxBuf /\ bufferPos < bufferLen

\* the operations of C24: seek, skip, the scalar and the array read, and the
\* writes where the cursor has no growth callback
RefusedWhole ==
    \/ last'.op \in {"seek", "skip", "read", "read_array"}
    \/ /\ last'.op \in {"write", "write_array", "write_string"}
       /\ bufferResizeCallback = Null

\* C24: with exceptions enabled, a seek, a skip, a scalar read<T>, a read of
\* a fixed-size array, or a write on a cursor without growth callback that
\* fails with OutOfBounds leaves tell(), size(), both flags and every byte of
\* the buffer as they were before the call.
C24_OutOfBoundsChangesNothing ==
    [][(useExceptions /\ InView /\ last'.outcome = "OutOfBounds" /\ RefusedWhole) =>
        UNCHANGED <<bufferPos, bufferLen, useExceptions, bigEndian, buffer>>]_vars

\* the read of an array has failed with OutOfBounds from inside the view of a
\* cursor without growth callback
C24_Witness ==
    /\ last.op = "read_array" /\ last.outcome = "OutOfBounds" /\ last.T.size = 2
    /\ bufferResizeCallback = Null /\ 0 < bufferPos /\ bufferPos + 2 <= bufferLen

\* C25: with exceptions enabled, read_string() with no length ends after at
\* most size() - tell() + 1 single-byte reads; when no terminator byte exists
\* in [tell(), size()) it fails with OutOfBounds and reads nothing past the
\* end of the view.
C25_ReadStringStopsAtEnd ==
    [][(last'.op = "read_string" /\ useExceptions /\ InView) =>
        /\ StringReads(buffer, bufferLen, bufferPos) <= bufferLen - bufferPos + 1
        /\ (\A k \in bufferPos..(bufferLen - 1) : buffer[k + 1] # 0) =>
               /\ last'.outcome = "OutOfBounds"
               /\ StringReads(buffer, bufferLen, bufferPos) = bufferLen - bufferPos + 1
               /\ bufferPos' = bufferLen
               /\ UNCHANGED <<buffer, bufferLen>>]_vars

\* read_string() has failed with OutOfBounds at the end of a view whose last
\* two bytes are no terminators
C25_Witness ==
    /\ last.op = "read_string" /\ last.outcome = "OutOfBounds" /\ useExceptions
    /\ bufferLen = 3 /\ bufferPos = 3 /\ buffer = <<0, 1, 1>>

\* a step has the outcome, the position and the result of the operation r
SameAs(r) ==
    IF r.outcome = "UB" THEN last'.outcome = "UB"
    ELSE /\ last'.outcome = r.outcome
         /\ bufferPos' = r.bufferPos
         /\ r.outcome = "ok" => last'.ret = r.ret

\* C26: for every argument representable as a non-negative int64, seek_u(o, a)
\* behaves as seek(o, a), at_u<T>(o, a) as at<T>(o, a), and skip_u<T>(n) as
\* skip<T>(n): it moves the position forward by sizeof(T) * n bytes.
C26_UnsignedAsSigned ==
    [][/\ (last'.op = "seek_u") =>
              \A offset \in UOffsets, offsetFrom \in SeekDirs :
                  SeekU(offset, offsetFrom) =>
                  SameAs(seek(bufferPos, bufferLen, offset, offsetFrom)
                             @@ [ret |-> <<>>])
       /\ (last'.op = "skip_u") =>
              \A T \in {last'.T}, n \in UCounts :
                  SkipU(T, n) =>
                  SameAs(skip(bufferPos, bufferLen, T, n) @@ [ret |-> <<>>])
       /\ (last'.op = "at_u") =>
              \A T \in {last'.T}, offset \in UOffsets, offsetFrom \in SeekDirs :
                  AtU(T, offset, offsetFrom) =>
                  SameAs(at(buffer, bufferLen, bufferPos, T, offset, offsetFrom))]_vars

\* a counted read of more bytes than [tell(), size()) holds is refused
RefusedBeyond(T, n) ==
    (T.size * n > bufferLen - bufferPos) => last'.outcome = "OutOfBounds"

\* C27: with exceptions enabled, read_span<T>(n), read(T*, n),
\* read(container, n) and read_string(n) succeed only if
\* sizeof(T) * n <= size() - tell() as mathematical integers; a count whose
\* end offset wraps around modulo 2^WordBits is refused with OutOfBounds.
C27_CountedReadsRefuseWrappingCounts ==
    [][(useExceptions /\ InView) =>
        /\ (last'.op = "read_span") =>
               \A T \in {last'.T}, n \in BigCounts :
                   ReadSpan(T, n) => RefusedBeyond(T, n)
        /\ (last'.op = "read_pointer") =>
               \A T \in {last'.T}, n \in BigCounts :
                   ReadPointer(T, n) => RefusedBeyond(T, n)
        /\ (last'.op = "read_container") =>
               \A T \in {last'.T}, n \in SeqCounts, contiguous \in BOOLEAN :
                   ReadContainer(T, n, contiguous, <<>>) => RefusedBeyond(T, n)
        /\ (last'.op = "read_string_n") =>
               \A n \in SeqCounts, stop \in BOOLEAN :
                   ReadStringN(n, stop) => RefusedBeyond(Char, n)]_vars

\* C28: a BufferStreamReadOnly never has a growth callback, and no member
\* that stays public on it (seek, skip, read, at, peek, pad, the setters)
\* changes a byte of the viewed memory or size().
C28_ReadOnlyLeavesMemory ==
    [][/\ bufferResizeCallback = Null
       /\ UNCHANGED <<buffer, bufferLen>>]_vars

\* C29: for a cursor constructed over a resizable container of any element
\* type, in every reachable state size() is at most the byte size of the
\* container, size() never decreases, and after a growing write that ends at
\* byte offset e, size() == e.
C29_SizeWithinContainer ==
    /\ [](Running => bufferLen <= Len(buffer))
    /\ [][(last'.outcome # "UB") =>
            /\ bufferLen' >= bufferLen
            /\ (last'.op = "write" /\ bufferLen' > bufferLen) =>
                   bufferLen' = bufferPos']_vars

\* C30: read(span, n) within the view yields the same n element values and
\* the same final position tell() + n * sizeof(T) whether the destination
\* span is empty (bound in place) or holds n elements (filled by copying),
\* and the values are those of n successive read<T>() calls from the same
\* position, under both settings of the endianness flag.
C30_SpanReadSameInPlaceAndCopied ==
    [][(last'.op \in {"read_span_empty", "read_span_sized"}) =>
        \A T \in {last'.T}, n \in SeqCounts, empty \in BOOLEAN :
            (bufferPos + T.size * n <= bufferLen /\ ReadIntoSpan(T, n, empty)) =>
            SameAs(ReadLoop(buffer, bufferLen, bufferPos, T, n, <<>>))]_vars

====
